---- MODULE Spec2Model ----
(***************************************************************************)
(* A model of linkinator's crawl engine: LinkChecker.check, _fetch and     *)
(* _filterCachedFilterSkippedThenCrawlUrlAndChildren, together with the    *)
(* 'link' / 'pagestart' listeners that the command line attaches.          *)
(*                                                                         *)
(* Strings are sequences of symbols; a symbol stands for a fixed piece of  *)
(* text ("http", "://x", "/a", "mailto:", ...), so that startsWith and an  *)
(* unanchored regular-expression search are computed, not assumed.         *)
(***************************************************************************)
EXTENDS Integers, Sequences, FiniteSets, TLC

VARIABLES
    options,    \* the caller's CheckOptions object (check mutates it)
    listener,   \* who listens to the events: "none", "cli" or "cliSilent"
    phase,      \* where check() is: idle, starting, crawling, done, rejected
    server,     \* the local static web server: none, listening, destroyed
    cache,      \* opts.cache, the set of urls already scanned
    results,    \* opts.results, the LinkResult array
    stack,      \* the chain of pending calls of the recursive crawl
    inflight,   \* the gaxios requests that were issued and not yet settled
    requests,   \* every request handed to gaxios so far, in order
    events,     \* every emit() so far, in order
    pages,      \* every getLinks() call so far: the page and the urls found
    site,       \* the remote: the statuses it answers, the links of a page
    first,      \* what the caller's first call of check() resolved with
    report      \* what check() resolved with

vars == <<options, listener, phase, server, cache, results, stack, inflight,
          requests, events, pages, site, first, report>>

----------------------------------------------------------------------------
(* Bounds of the model *)

\* the largest number of links getLinks finds on one page
MaxLinks == 2

----------------------------------------------------------------------------
(* Strings *)

StartsWith(s, p) ==
    /\ Len(p) <= Len(s)
    /\ SubSeq(s, 1, Len(p)) = p

\* String.prototype.match / RegExp search of a literal: found at any offset
Includes(s, p) ==
    \E i \in 1..(Len(s) + 1) :
        /\ i + Len(p) - 1 <= Len(s)
        /\ SubSeq(s, i, i + Len(p) - 1) = p

\* new RegExp(source): a source with an unterminated group does not compile
RegExpCompiles(source) ==
    \A i \in 1..Len(source) : source[i] # "("

\* a test that matches at the start of the string only
RegExpTestAtStart(source, s) ==
    IF source # <<>> /\ Head(source) = "^"
        THEN StartsWith(s, Tail(source))
        ELSE StartsWith(s, source)

\* new RegExp(source).test(s): "^" anchors at the start, otherwise a search
RegExpTest(source, s) ==
    IF source # <<>> /\ Head(source) = "^"
        THEN StartsWith(s, Tail(source))
        ELSE Includes(s, source)

----------------------------------------------------------------------------
(* The inputs: targets, skip patterns, urls, responses *)

HttpTarget == <<"http", "://x", "/a">>
LocalTarget == <<"docs">>
OutsideUrl == <<"http", "://o">>
MailtoUrl == <<"mailto:", "e">>

\* the urls a page of the site under `path` may link to: the target itself
\* (a cycle), a page below it, a page of another host and a mail address
Universe(path) == {path, path \o <<"/b">>, OutsideUrl, MailtoUrl}

LinkLists(path, n) == UNION {[1..k -> Universe(path)] : k \in 0..n}

\* the remotes: one answers with many statuses and has pages of few links,
\* the other has pages of many links and answers with few statuses
Statuses == {200, 300, 404, 405}
ManyStatuses ==
    [statuses |-> Statuses, maxLinks |-> MaxLinks - 1, stable |-> FALSE]
ManyLinks ==
    [statuses |-> {200, 405}, maxLinks |-> MaxLinks, stable |-> FALSE]

\* a remote that answers every request for a url in the same way, and
\* never fails while it is up: under the target every url is a page that
\* links to the page below the target and to the other host
StableSite == [statuses |-> {200}, maxLinks |-> MaxLinks, stable |-> TRUE]

\* linksToSkip as the caller passes it: left out, one pattern that occurs
\* inside a url, or a pattern that is no regular expression
NoSkips == [defined |-> FALSE, items |-> <<>>]
SkipChoices ==
    { NoSkips,
      [defined |-> TRUE, items |-> << <<"/b">> >>],
      [defined |-> TRUE, items |-> << <<"(">> >>] }

\* port 0 stands for an option that was not given; a port is given with a
\* directory only
Requests ==
    { [path |-> p, recurse |-> r, linksToSkip |-> s, port |-> n] :
        p \in {LocalTarget}, r \in BOOLEAN, s \in SkipChoices,
        n \in {0, 8080} }
    \cup
    { [path |-> p, recurse |-> r, linksToSkip |-> s, port |-> 0] :
        p \in {HttpTarget}, r \in BOOLEAN, s \in SkipChoices }

Listeners == {"none", "cli", "cliSilent"}

\* the command line passes path, recurse and linksToSkip, never a port
CliRequests == {r \in Requests : r.port = 0}

\* a caller of the library that names the port for its directory
LibraryRequests == {r \in Requests : r.path = HttpTarget \/ r.port # 0}

\* the runs: against the remote of many statuses, the library without
\* listeners and the command line with its listeners; against the remote
\* of many links, the library with a url as target
Scenarios ==
    { [options |-> o, listener |-> "none", site |-> ManyStatuses] :
        o \in LibraryRequests }
    \cup
    { [options |-> o, listener |-> l, site |-> ManyStatuses] :
        o \in CliRequests, l \in Listeners \ {"none"} }
    \cup
    { [options |-> o, listener |-> "none", site |-> ManyLinks] :
        o \in {r \in LibraryRequests : r.path = HttpTarget} }
    \cup
    { [options |-> o, listener |-> "none", site |-> StableSite] :
        o \in LibraryRequests }

ContentTypes ==
    { <<>>, <<"text/plain">>, <<"text/html">>,
      <<"text/html", "; charset=utf-8">> }

TextBody(links) == [kind |-> "text", links |-> links]
StreamBody == [kind |-> "stream"]

\* the one answer of the stable remote to a request
StableAnswer(req, path) ==
    [status |-> 200,
     contentType |-> IF StartsWith(req.url, path) THEN <<"text/html">>
                     ELSE <<"text/plain">>,
     data |-> IF req.responseType = "text"
                THEN TextBody(<<path \o <<"/b">>, OutsideUrl>>)
                ELSE StreamBody]

\* what the transport may answer to a request
Responses(req, path, remote) ==
    IF remote.stable THEN {StableAnswer(req, path)} ELSE
    { [status |-> st, contentType |-> ct, data |-> d] :
        st \in remote.statuses, ct \in ContentTypes,
        d \in IF req.responseType = "text"
                THEN {TextBody(l) : l \in LinkLists(path, remote.maxLinks)}
                ELSE {StreamBody} }

----------------------------------------------------------------------------
(* The pure parts of the code *)

\* options.linksToSkip || []
OrEmpty(skips) ==
    IF skips.defined THEN skips ELSE [defined |-> TRUE, items |-> <<>>]

MailtoPattern == <<"^", "mailto:">>

\* a check that adds no pattern of its own
PushNothing(skips) == [defined |-> TRUE, items |-> skips.items]

\* options.linksToSkip.push('^mailto:')
PushMailto(skips) ==
    [defined |-> TRUE, items |-> Append(skips.items, MailtoPattern)]

\* !options.path.startsWith('http')
NeedsServer(path) == ~StartsWith(path, <<"http">>)

DefaultPortBase == 5000
RandomPortSpan == 1000

\* options.port || 5000 + Math.round(Math.random() * 1000)
PortChoices(port) ==
    IF port # 0 THEN {port}
    ELSE {DefaultPortBase, DefaultPortBase + RandomPortSpan}

\* `http://localhost:${port}`
LocalUrl(port) == <<"http", "://localhost:", ToString(port)>>

isHtml(response) == Includes(response.contentType, <<"text/html">>)

Method(shouldCrawl) == IF shouldCrawl THEN "GET" ELSE "HEAD"
ResponseType(shouldCrawl) == IF shouldCrawl THEN "text" ELSE "stream"

FirstRequest(url, shouldCrawl) ==
    [method |-> Method(shouldCrawl), url |-> url,
     responseType |-> ResponseType(shouldCrawl)]

RetryRequest(url) ==
    [method |-> "GET", url |-> url, responseType |-> "stream"]

\* a fetch that takes every answer for final
NeedsRetryNever(res) == FALSE

\* res.status === 405 after the first request
NeedsRetry(res) == res.status = 405

\* a classification without the upper limit
StateOfNoUpperLimit(status) == IF status >= 200 THEN "OK" ELSE "BROKEN"

\* res.status >= 200 && res.status < 300
StateOf(status) ==
    IF status >= 200 /\ status < 300 THEN "OK" ELSE "BROKEN"

\* what _fetch returns when the (last) request was answered by res
Fetched(url, res) ==
    [data |-> res.data,
     shouldRecurse |-> isHtml(res),
     linkResult |-> [url |-> url, status |-> res.status,
                     state |-> StateOf(res.status)]]

\* a fetch whose state starts as OK
FetchFailedAsOk(url) ==
    [data |-> TextBody(<<>>),
     shouldRecurse |-> FALSE,
     linkResult |-> [url |-> url, status |-> 0, state |-> "OK"]]

\* what _fetch returns when a request threw
FetchFailed(url) ==
    [data |-> TextBody(<<>>),
     shouldRecurse |-> FALSE,
     linkResult |-> [url |-> url, status |-> 0, state |-> "BROKEN"]]

\* a crawl that takes no url for scanned
ScannedNever(url, scanned) == FALSE

\* opts.cache.has(opts.url)
Scanned(url, scanned) == url \in scanned

\* a crawl that does not note the urls it scans
VisitedNone(scanned, url) == scanned

\* opts.cache.add(opts.url)
Visited(scanned, url) == scanned \cup {url}

\* every pattern of linksToSkip is compiled before any match is looked at
SkipsCompile(skips) ==
    \A i \in 1..Len(skips.items) : RegExpCompiles(skips.items[i])

IsSkipped(url, skips) ==
    \E i \in 1..Len(skips.items) : RegExpTest(skips.items[i], url)

SkippedResult(url) == [url |-> url, state |-> "SKIPPED"]

\* opts.crawl && fetchResult.shouldRecurse
ShouldExpand(crawl, fetchResult) == crawl /\ fetchResult.shouldRecurse

\* the links of a document; a body that was requested as a stream is no text
getLinks(data, baseUrl) ==
    IF data.kind = "text" THEN data.links ELSE <<>>

\* a loop that takes the urls from the last to the first
ChildAtFromEnd(urls, i) == urls[Len(urls) + 1 - i]

\* for (const url of urls): the url of the i-th turn of the loop
ChildAt(urls, i) == urls[i]

\* a crawl that follows the links of every host
ChildCrawlAnyHost(url, opts) == opts.recurse

\* opts.checkOptions.recurse && url.startsWith(opts.checkOptions.path)
ChildCrawl(url, opts) == opts.recurse /\ StartsWith(url, opts.path)

\* a report that passes only when every link is OK
PassedWhenAllOk(links) == \A i \in 1..Len(links) : links[i].state = "OK"

\* results.filter(x => x.state === LinkState.BROKEN).length === 0
Passed(links) == \A i \in 1..Len(links) : links[i].state # "BROKEN"

\* the 'link' listener of the command line
PayloadState(payload) ==
    IF "state" \in DOMAIN payload THEN payload.state ELSE "undefined"

CliLinkThrows(silent, payload) ==
    IF silent /\ PayloadState(payload) # "BROKEN" THEN FALSE
    ELSE IF PayloadState(payload) \in {"BROKEN", "OK"}
        THEN "status" \notin DOMAIN payload
    ELSE IF PayloadState(payload) = "SKIPPED" THEN FALSE
    ELSE TRUE

LinkListenerThrows(who, payload) ==
    /\ who \in {"cli", "cliSilent"}
    /\ CliLinkThrows(who = "cliSilent", payload)

\* the payload as the event log keeps it: of a fetchResult, the body and
\* the flag are kept as fields without their values
Logged(payload) ==
    IF "data" \in DOMAIN payload
        THEN [data |-> "body", shouldRecurse |-> "flag",
              linkResult |-> payload.linkResult]
        ELSE payload

LinkEvent(payload) == [type |-> "link", payload |-> Logged(payload)]

\* a pagestart that names no page
PageStartUnnamed(url) == [type |-> "pagestart", payload |-> <<>>]

PageStartEvent(url) == [type |-> "pagestart", payload |-> url]

----------------------------------------------------------------------------
(* The state machine *)

NoServer == [state |-> "none", port |-> 0, destroys |-> 0]
NoReport == [returned |-> FALSE]

Init ==
    /\ \E s \in Scenarios :
        /\ options = s.options
        /\ listener = s.listener
        /\ site = s.site
    /\ phase = "idle"
    /\ server = NoServer
    /\ cache = {}
    /\ results = <<>>
    /\ stack = <<>>
    /\ inflight = {}
    /\ requests = <<>>
    /\ events = <<>>
    /\ pages = <<>>
    /\ first = NoReport
    /\ report = NoReport

Top == stack[Len(stack)]
Pop == SubSeq(stack, 1, Len(stack) - 1)
ReplaceTop(frame) == [stack EXCEPT ![Len(stack)] = frame]
Frame(url, crawl) ==
    [url |-> url, crawl |-> crawl, pc |-> "call", urls |-> <<>>, i |-> 1]

\* the first call of the crawl: the target itself, crawl: true
RootFrame(path) == Frame(path, TRUE)

\* check() up to its first await: the skip list is completed, and either
\* the static web server is started or the crawl is entered
Check ==
    /\ phase = "idle"
    /\ LET skips == PushMailto(OrEmpty(options.linksToSkip)) IN
        IF NeedsServer(options.path)
        THEN \E port \in PortChoices(options.port) :
                /\ options' = [options EXCEPT !.linksToSkip = skips]
                /\ server' = [server EXCEPT !.state = "starting",
                                            !.port = port]
                /\ phase' = "starting"
                /\ stack' = stack
        ELSE /\ options' = [options EXCEPT !.linksToSkip = skips]
             /\ server' = server
             /\ phase' = "crawling"
             /\ stack' = <<RootFrame(options.path)>>
    /\ UNCHANGED <<listener, cache, results, inflight, requests, events,
                   pages, site, first,
                   report>>

\* listen() called back: the target becomes the server's url
ServerListening ==
    /\ phase = "starting"
    /\ server' = [server EXCEPT !.state = "listening"]
    /\ options' = [options EXCEPT !.path = LocalUrl(server.port)]
    /\ phase' = "crawling"
    /\ stack' = <<RootFrame(LocalUrl(server.port))>>
    /\ UNCHANGED <<listener, cache, results, inflight, requests, events,
                   pages, site, first,
                   report>>

\* the server emitted 'error' (the port is taken): check() rejects
ServerError ==
    /\ phase = "starting"
    /\ server' = [server EXCEPT !.state = "none"]
    /\ phase' = "rejected"
    /\ UNCHANGED <<options, listener, cache, results, stack, inflight,
                   requests, events, pages, site, first,
                   report>>

\* an exception leaves every pending call of the crawl and check() itself:
\* nothing after the awaits runs
Thrown ==
    /\ phase' = "rejected"
    /\ stack' = <<>>

\* a call of the crawl up to its first await or its return
Enter ==
    /\ phase = "crawling"
    /\ stack # <<>>
    /\ Top.pc = "call"
    /\ IF Scanned(Top.url, cache)
       THEN /\ stack' = Pop
            /\ UNCHANGED <<phase, cache, results, inflight, requests, events>>
       ELSE /\ cache' = Visited(cache, Top.url)
            /\ IF ~SkipsCompile(options.linksToSkip)
               THEN /\ Thrown
                    /\ UNCHANGED <<results, inflight, requests, events>>
               ELSE IF IsSkipped(Top.url, options.linksToSkip)
               THEN /\ results' = Append(results, SkippedResult(Top.url))
                    /\ events' = Append(events,
                                        LinkEvent(SkippedResult(Top.url)))
                    /\ IF LinkListenerThrows(listener,
                                             SkippedResult(Top.url))
                       THEN Thrown
                       ELSE stack' = Pop /\ phase' = phase
                    /\ UNCHANGED <<inflight, requests>>
               ELSE /\ inflight' = inflight
                                   \cup {FirstRequest(Top.url, Top.crawl)}
                    /\ requests' = Append(requests,
                                          FirstRequest(Top.url, Top.crawl))
                    /\ stack' = ReplaceTop([Top EXCEPT !.pc = "fetch"])
                    /\ UNCHANGED <<phase, results, events>>
    /\ UNCHANGED <<options, listener, server, pages, site, first,
                   report>>

\* _fetch returned fetchResult: the rest of the call up to its loop
Finalize(fetchResult) ==
    /\ results' = Append(results, fetchResult.linkResult)
    /\ IF LinkListenerThrows(listener, fetchResult)
       THEN /\ events' = Append(events, LinkEvent(fetchResult))
            /\ Thrown
            /\ pages' = pages
       ELSE IF ShouldExpand(Top.crawl, fetchResult)
       THEN /\ events' = events \o <<LinkEvent(fetchResult),
                                     PageStartEvent(Top.url)>>
            /\ pages' = Append(pages,
                   [url |-> Top.url,
                    urls |-> getLinks(fetchResult.data, Top.url)])
            /\ stack' = ReplaceTop(
                   [Top EXCEPT !.pc = "loop",
                               !.urls = getLinks(fetchResult.data, Top.url),
                               !.i = 1])
            /\ phase' = phase
       ELSE /\ events' = Append(events, LinkEvent(fetchResult))
            /\ pages' = pages
            /\ stack' = Pop
            /\ phase' = phase

\* a transport whose settled requests stay in flight
SettledLater(pending, req) == pending

\* await gaxios.request(...): the call goes on when its request is settled
Settled(pending, req) == pending \ {req}

\* a url of the local server is answered only while the server listens
Listens(url) ==
    \/ ~StartsWith(url, <<"http", "://localhost:">>)
    \/ server.state = "listening"

\* the transport answers the request req in flight with res
Respond(req, res) ==
    /\ phase = "crawling"
    /\ stack # <<>>
    /\ Top.pc \in {"fetch", "refetch"}
    /\ Listens(req.url)
    /\ IF Top.pc = "fetch" /\ NeedsRetry(res)
       THEN /\ inflight' = Settled(inflight, req)
                            \cup {RetryRequest(Top.url)}
            /\ requests' = Append(requests, RetryRequest(Top.url))
            /\ stack' = ReplaceTop([Top EXCEPT !.pc = "refetch"])
            /\ UNCHANGED <<phase, results, events, pages>>
       ELSE /\ inflight' = Settled(inflight, req)
            /\ requests' = requests
            /\ Finalize(Fetched(Top.url, res))
    /\ UNCHANGED <<options, listener, server, cache, site, first,
                   report>>

Response ==
    \E req \in inflight : \E res \in Responses(req, options.path, site) :
        Respond(req, res)

\* the request in flight fails (no such host, connection refused, ...)
Failure ==
    /\ phase = "crawling"
    /\ stack # <<>>
    /\ Top.pc \in {"fetch", "refetch"}
    /\ \E req \in inflight :
        /\ ~site.stable \/ ~Listens(req.url)
        /\ inflight' = Settled(inflight, req)
        /\ Finalize(FetchFailed(Top.url))
    /\ UNCHANGED <<options, listener, server, cache, requests, site, first,
                   report>>

\* the loop over the urls of a page: call the crawl for the next one, or
\* return when there is none left
Loop ==
    /\ phase = "crawling"
    /\ stack # <<>>
    /\ Top.pc = "loop"
    /\ IF Top.i <= Len(Top.urls)
       THEN stack' = Append(ReplaceTop([Top EXCEPT !.i = Top.i + 1]),
                            Frame(ChildAt(Top.urls, Top.i),
                                  ChildCrawl(ChildAt(Top.urls, Top.i),
                                             options)))
       ELSE stack' = Pop
    /\ UNCHANGED <<options, listener, phase, server, cache, results,
                   inflight, requests, events, pages, site, first,
                   report>>

\* server.destroy(), if a server was started
Destroyed(srv) ==
    IF srv.state = "listening"
        THEN [srv EXCEPT !.state = "destroyed", !.destroys = @ + 1]
        ELSE srv

\* the crawl returned: check() builds the report and stops the server
Finish ==
    /\ phase = "crawling"
    /\ stack = <<>>
    /\ report' = [returned |-> TRUE, links |-> results,
                  passed |-> Passed(results)]
    /\ server' = Destroyed(server)
    /\ phase' = "done"
    /\ UNCHANGED <<options, listener, cache, results, stack, inflight,
                   requests, events, pages, site, first>>

\* the caller calls check() once more, with the options object of its
\* first call; the second call is followed against the stable remote
CheckAgain ==
    /\ phase = "done"
    /\ site.stable
    /\ first = NoReport
    /\ first' = report
    /\ report' = NoReport
    /\ phase' = "idle"
    /\ cache' = {}
    /\ results' = <<>>
    /\ requests' = <<>>
    /\ events' = <<>>
    /\ pages' = <<>>
    /\ UNCHANGED <<options, listener, server, stack, inflight, site>>

Next ==
    \/ Check
    \/ ServerListening
    \/ ServerError
    \/ Enter
    \/ Response
    \/ Failure
    \/ Loop
    \/ Finish
    \/ CheckAgain

Spec == Init /\ [][Next]_vars

\* The steps of check() and of the crawl are continuations of awaited
\* promises: the event loop runs one as soon as its promise is settled.
\* listen() calls back or the server emits 'error'; a request handed to
\* the transport is answered or fails. So a run does not stand still
\* while one of its steps can be taken.
Step ==
    \/ Check
    \/ ServerListening
    \/ ServerError
    \/ Enter
    \/ Response
    \/ Failure
    \/ Loop
    \/ Finish

FairSpec == Spec /\ WF_vars(Step)

----------------------------------------------------------------------------
(* Vocabulary of the properties *)

Range(seq) == {seq[i] : i \in 1..Len(seq)}
Urls(links) == [i \in 1..Len(links) |-> links[i].url]
HasStatus(link) == "status" \in DOMAIN link
LinkStates == {"OK", "BROKEN", "SKIPPED"}

\* the target of the crawl, and the page below it
RootUrl == options.path
ChildUrl == options.path \o <<"/b">>

\* every url the traversal came across: the target and the links of the
\* pages that were expanded
Encountered == {RootUrl} \cup UNION {Range(pages[k].urls) : k \in 1..Len(pages)}

\* the regular expression pat is found in url: at the start when it begins
\* with "^", and at any place otherwise
Found(pat, url) ==
    IF pat # <<>> /\ pat[1] = "^"
        THEN /\ Len(url) >= Len(pat) - 1
             /\ \A i \in 1..(Len(pat) - 1) : url[i] = pat[i + 1]
        ELSE \E from \in 1..Len(url) : \E to \in from..Len(url) :
                SubSeq(url, from, to) = pat

MatchesSkipPattern(url) ==
    \E i \in 1..Len(options.linksToSkip.items) :
        Found(options.linksToSkip.items[i], url)

----------------------------------------------------------------------------
(* C1: the report of every run holds exactly one entry for each url that
   the traversal came across, no url twice, and the state of every entry is
   OK, BROKEN or SKIPPED. *)
C1_OneEntryPerUrl ==
    report.returned =>
        /\ \A i, j \in 1..Len(report.links) :
              report.links[i].url = report.links[j].url => i = j
        /\ Range(Urls(report.links)) = Encountered
        /\ \A i \in 1..Len(report.links) :
              report.links[i].state \in LinkStates

\* a finished run in which a page names the same url twice and the page
\* below the target links back to the target
C1_Witness ==
    /\ report.returned
    /\ \E k \in 1..Len(pages) :
          /\ pages[k].url = RootUrl
          /\ pages[k].urls = <<ChildUrl, ChildUrl>>
    /\ \E k \in 1..Len(pages) :
          /\ pages[k].url = ChildUrl
          /\ RootUrl \in Range(pages[k].urls)

(* C2: in the report, passed is true exactly when no entry is BROKEN;
   SKIPPED entries do not fail the run. *)
C2_PassedIffNoBroken ==
    report.returned =>
        (report.passed <=>
            Cardinality({i \in 1..Len(report.links) :
                            report.links[i].state = "BROKEN"}) = 0)

\* a run that passed although one of its entries is SKIPPED
C2_Witness ==
    /\ report.returned
    /\ report.passed
    /\ Len(report.links) > 1
    /\ \E i \in 1..Len(report.links) : report.links[i].state = "SKIPPED"

(* C3: a url in which a skip pattern is found (a search, at any place of
   the url) is never handed to the transport, is never expanded, and has
   one result and no more, whose state is SKIPPED and which has no
   status. *)
C3_SkippedNeverFetched ==
    phase \in {"crawling", "done", "rejected"} =>
        \A url \in cache : MatchesSkipPattern(url) =>
            /\ \A i \in 1..Len(requests) : requests[i].url # url
            /\ \A r \in inflight : r.url # url
            /\ \A k \in 1..Len(pages) : pages[k].url # url
            /\ \A i \in 1..Len(results) : results[i].url = url =>
                  /\ results[i].state = "SKIPPED"
                  /\ ~HasStatus(results[i])
            /\ Cardinality({i \in 1..Len(results) :
                              results[i].url = url}) = 1

\* the page below the target was skipped for a pattern found at its end,
\* and the mail address for the pattern check() adds
C3_Witness ==
    /\ SkippedResult(ChildUrl) \in Range(results)
    /\ SkippedResult(MailtoUrl) \in Range(results)
    /\ <<"/b">> \in Range(options.linksToSkip.items)

----------------------------------------------------------------------------
(* Steps of the transport, as the properties name them *)

\* the body of the answer as far as the step shows it: a stream when a
\* stream was asked for, else the text with the links that getLinks found
\* in this step, and a text without links when getLinks was not called
BodyShown(req) ==
    IF req.responseType = "stream" THEN StreamBody
    ELSE IF pages' # pages THEN TextBody(pages'[Len(pages')].urls)
    ELSE TextBody(<<>>)

\* the step is the transport answering req with this status and this
\* content type
AnsweredWith(req, status, contentType) ==
    Respond(req, [status |-> status, contentType |-> contentType,
                  data |-> BodyShown(req)])

Is2xx(status) == status \in 200..299
HtmlType(contentType) ==
    \E i \in 1..Len(contentType) : contentType[i] = "text/html"
LastOf(seq) == seq[Len(seq)]
IsPrefixOf(p, s) ==
    /\ Len(p) <= Len(s)
    /\ \A i \in 1..Len(p) : s[i] = p[i]
PayloadsOf(type) ==
    LET picked == SelectSeq(events, LAMBDA e : e.type = type)
    IN  [i \in 1..Len(picked) |-> picked[i].payload]

(* C4 as claimed: a failed request is recorded without a status, so every
   status of a result is a status the transport answered with. *)
C4_FailureHasNoStatus ==
    \A i \in 1..Len(results) :
        HasStatus(results[i]) => results[i].status \in site.statuses

(* C4, amended: a failure of the transport, at the first request or at the
   retry, is caught in the fetch: the url is recorded as BROKEN with
   status 0, one link event is emitted, the url is not expanded, and the
   call returns to the loop of the page it was found on; the run ends at
   this step only when the link listener throws. *)
C4_FailureIsBrokenStatus0 ==
    [][Failure =>
        /\ results' = Append(results, [url |-> Top.url, status |-> 0,
                                       state |-> "BROKEN"])
        /\ pages' = pages
        /\ Len(events') = Len(events) + 1
        /\ LastOf(events').type = "link"
        /\ phase' = "rejected" => listener = "cli"
        /\ listener # "cli" =>
              /\ phase' = "crawling"
              /\ stack' = SubSeq(stack, 1, Len(stack) - 1)]_vars

\* the request for a link of a page failed, also at its retry, and the
\* traversal went on to the next link of that page
C4_Witness ==
    /\ Len(results) = 3
    /\ Len(pages) = 1
    /\ Len(pages[1].urls) = 2
    /\ results[2] = [url |-> pages[1].urls[1], status |-> 0,
                     state |-> "BROKEN"]
    /\ results[3].url = pages[1].urls[2]
    /\ \E i \in 1..Len(requests) :
          /\ requests[i].url = results[2].url
          /\ requests[i].responseType = "stream"
          /\ requests[i].method = "GET"

(* C5: when a HEAD request is answered with 405, one GET request for the
   same url is issued before any result is recorded; whatever the GET is
   answered with is final: no further request is made, and the status
   recorded is that of the GET, with OK for 200..299 and BROKEN otherwise
   (405 included). A url asked with HEAD is never asked more than twice. *)
C5_RetryOnceAfterHead405 ==
    /\ [][\A req \in inflight :
            \A st \in site.statuses : \A ct \in ContentTypes :
                (~Top.crawl /\ AnsweredWith(req, st, ct)) =>
                    IF req.method = "HEAD" /\ st = 405
                    THEN /\ results' = results
                         /\ requests' = Append(requests,
                               [method |-> "GET", url |-> req.url,
                                responseType |-> "stream"])
                         /\ inflight' = {LastOf(requests')}
                    ELSE /\ requests' = requests
                         /\ inflight' = {}
                         /\ results' = Append(results,
                               [url |-> req.url, status |-> st,
                                state |-> IF Is2xx(st) THEN "OK"
                                          ELSE "BROKEN"])]_vars
    /\ [](\A i \in 1..Len(requests) : requests[i].method = "HEAD" =>
            /\ Cardinality({j \in 1..Len(requests) :
                              requests[j].url = requests[i].url}) <= 2
            /\ \A j \in 1..Len(requests) :
                  (j # i /\ requests[j].url = requests[i].url) =>
                      (j = i + 1 /\ requests[j].method = "GET"))

\* a HEAD and then a GET were sent for a url, and the 405 of the GET was
\* recorded
C5_Witness ==
    \E i \in 1..Len(requests) : \E k \in 1..Len(results) :
        /\ requests[i].method = "HEAD"
        /\ i = Len(requests) - 1
        /\ requests[i + 1].method = "GET"
        /\ requests[i + 1].url = requests[i].url
        /\ results[k] = [url |-> requests[i].url, status |-> 405,
                         state |-> "BROKEN"]

(* C6: a page is expanded (pagestart emitted, its links taken) only in a
   call that crawls and only on an answer whose content type contains
   text/html; a call crawls only when its url is the target, in the first
   call, or when recurse is set and the url begins with the target as
   check() holds it (the url of the local server for a directory). So
   without recurse only the target is expanded, and a url of another host
   is asked with HEAD, recorded once and never expanded. *)
C6_ExpandOnlyCrawledHtml ==
    /\ [][\A req \in inflight :
            \A st \in site.statuses : \A ct \in ContentTypes :
                (pages' # pages /\ AnsweredWith(req, st, ct)) =>
                    /\ HtmlType(ct)
                    /\ Top.crawl
                    /\ LastOf(pages').url = Top.url
                    /\ LastOf(events') = [type |-> "pagestart",
                                          payload |-> Top.url]]_vars
    /\ [](PayloadsOf("pagestart") = [k \in 1..Len(pages) |-> pages[k].url])
    /\ [](\A k \in 1..Len(stack) : stack[k].crawl =>
            \/ k = 1 /\ stack[k].url = RootUrl
            \/ options.recurse /\ IsPrefixOf(RootUrl, stack[k].url))
    /\ [](\A k \in 1..Len(pages) :
            /\ pages[k].url # OutsideUrl
            /\ ~options.recurse => pages[k].url = RootUrl)
    /\ [](/\ \A i \in 1..Len(requests) :
               requests[i].url = OutsideUrl =>
                  (requests[i].method = "HEAD"
                     \/ (i > 1 /\ requests[i - 1].url = OutsideUrl))
          /\ Cardinality({i \in 1..Len(results) :
                            results[i].url = OutsideUrl}) <= 1)

\* under a directory target with recurse, the page below the server's url
\* was expanded, and the url of the other host, found on it, has its result
C6_Witness ==
    /\ server.state = "listening"
    /\ options.recurse
    /\ \E k \in 1..Len(pages) :
          /\ pages[k].url = ChildUrl
          /\ OutsideUrl \in Range(pages[k].urls)
    /\ OutsideUrl \in Range(Urls(results))
    /\ stack = <<>>

\* the urls in the order of a depth-first walk that visits a url when it
\* first comes up and then the links of its page, one after the other
LinksOf(url) ==
    IF \E k \in 1..Len(pages) : pages[k].url = url
        THEN (CHOOSE pg \in Range(pages) : pg.url = url).urls
        ELSE <<>>

RECURSIVE Preorder(_, _)
Preorder(todo, seen) ==
    IF todo = <<>> THEN <<>>
    ELSE IF Head(todo) \in seen THEN Preorder(Tail(todo), seen)
    ELSE <<Head(todo)>>
         \o Preorder(LinksOf(Head(todo)) \o Tail(todo),
                     seen \cup {Head(todo)})

(* C7: the links of the report are in the order of first visit of a
   depth-first walk from the target: a page before the urls first found
   under it, all that is found under an earlier link of a page before the
   later links of that page. *)
C7_DiscoveryOrder ==
    report.returned =>
        Urls(report.links) = Preorder(<<RootUrl>>, {})

\* the target links to its page and to the other host, the page links to
\* the mail address: the address comes before the other host
C7_Witness ==
    /\ report.returned
    /\ Urls(report.links) = <<RootUrl, ChildUrl, MailtoUrl, OutsideUrl>>
    /\ LinksOf(RootUrl) = <<ChildUrl, OutsideUrl>>
    /\ LinksOf(ChildUrl) = <<MailtoUrl>>

(* C8 as claimed: the payloads of the link events, in order, are the
   results; so the state of every payload is OK, BROKEN or SKIPPED. *)
C8_LinkEventsAreResults ==
    PayloadsOf("link") = results

(* C9 as claimed: when check() has ended, by its return or by an exception
   of the crawl, no server it started still listens. *)
C9_ServerStoppedOnExit ==
    phase \in {"done", "rejected"} => server.state # "listening"

(* C10: whenever the transport's answer to a request is taken as final, the
   result recorded carries the status of that answer, and its state is OK
   exactly for the statuses 200..299 and BROKEN for every other; a target
   that answers 404 gives a report of one BROKEN entry that has not
   passed. *)
C10_StateFromStatus ==
    /\ [][\A req \in inflight :
            \A st \in site.statuses : \A ct \in ContentTypes :
                (results' # results /\ AnsweredWith(req, st, ct)) =>
                    /\ results' = Append(results,
                          [url |-> req.url, status |-> st,
                           state |-> IF Is2xx(st) THEN "OK" ELSE "BROKEN"])
                    /\ req.url = Top.url]_vars
    /\ [](\A i \in 1..Len(results) : HasStatus(results[i]) =>
            /\ results[i].status \in site.statuses \cup {0}
            /\ results[i].state = "OK" <=> Is2xx(results[i].status))
    /\ []((report.returned
            /\ Len(report.links) = 1 /\ LastOf(report.links).state # "SKIPPED"
            /\ report.links[1].status = 404)
          => (report.links[1].state = "BROKEN" /\ ~report.passed))

\* the target answered 404: one entry, BROKEN, 404, not passed
C10_Witness ==
    /\ report.returned
    /\ report.links = <<[url |-> RootUrl, status |-> 404,
                         state |-> "BROKEN"]>>
    /\ ~report.passed

----------------------------------------------------------------------------
IsMailto(url) == url # <<>> /\ url[1] = "mailto:"

(* C11: whatever linksToSkip the caller gave, also none, a url that begins
   with mailto: is never handed to the transport, every result of such a
   url is SKIPPED and has no status, and the report of a run holds the
   SKIPPED entry of every mailto: url that the traversal came across. *)
C11_MailtoAlwaysSkipped ==
    /\ \A i \in 1..Len(requests) : ~IsMailto(requests[i].url)
    /\ \A r \in inflight : ~IsMailto(r.url)
    /\ \A i \in 1..Len(results) : IsMailto(results[i].url) =>
          results[i] = [url |-> results[i].url, state |-> "SKIPPED"]
    /\ report.returned =>
          \A url \in Encountered : IsMailto(url) =>
              [url |-> url, state |-> "SKIPPED"] \in Range(report.links)

\* the caller gave no linksToSkip, a page names a mail address, and the
\* report holds the address as SKIPPED
C11_Witness ==
    /\ report.returned
    /\ options.linksToSkip.items = <<MailtoPattern>>
    /\ MailtoUrl \in Encountered
    /\ [url |-> MailtoUrl, state |-> "SKIPPED"] \in Range(report.links)

(* C12 as claimed: two calls of check() with the same options object
   against a stable remote resolve with the same links, in order and in
   value, also when the target is a directory. *)
C12_SameLinksTwice ==
    (first.returned /\ report.returned) => report.links = first.links

(* C13 as claimed: check() never changes the options object it was called
   with: no step of a run rewrites the caller's path or adds to the
   caller's linksToSkip, so both are after the call what they were
   before. *)
C13_RequestUnchanged ==
    [][/\ options'.path = options.path
       /\ options'.linksToSkip = options.linksToSkip]_vars

(* C14 as claimed: with a pattern in linksToSkip that is no regular
   expression, check() fails before anything of the run has happened: no
   server is started, no url is in the scanned set, no request was handed
   to the transport and no event was emitted. *)
C14_BadPatternFailsFirst ==
    ~SkipsCompile(options.linksToSkip) =>
        /\ server.state = "none"
        /\ cache = {}
        /\ requests = <<>>
        /\ events = <<>>

(* C15: when every step that can be taken is taken in the end, and so
   every request is answered or fails, each call of check() comes to its
   end: it resolves with the report or it rejects. This holds on pages
   that link to themselves and to pages that link back, for no url has
   more than one result and no url is asked for more than twice. *)
C15_EveryRunEnds ==
    /\ (phase = "idle") ~> (report.returned \/ phase = "rejected")
    /\ [](phase = "done" => report.returned /\ stack = <<>>)
    /\ [](\A i, j \in 1..Len(results) :
            results[i].url = results[j].url => i = j)
    /\ [](\A i \in 1..Len(requests) :
            Cardinality({j \in 1..Len(requests) :
                           requests[j].url = requests[i].url}) <= 2)

\* a run that returned its report although the target links to itself and
\* its page links to itself and back to the target
C15_Witness ==
    /\ report.returned
    /\ LinksOf(RootUrl) = <<RootUrl, ChildUrl>>
    /\ LinksOf(ChildUrl) = <<ChildUrl, RootUrl>>
    /\ Urls(report.links) = <<RootUrl, ChildUrl>>

(* C16 as claimed: the first request for a url is a HEAD in a call that
   does not crawl and a GET in a call that crawls, and only a HEAD is
   asked again: a url whose first request is a GET has that one request in
   the run, whatever the GET was answered with, so a url has two requests
   at most, and two only with a HEAD as the first. *)
C16_RetryOnlyAfterHead ==
    /\ \A r \in inflight :
          Top.pc = "fetch" =>
              r.method = (IF Top.crawl THEN "GET" ELSE "HEAD")
    /\ \A i, j \in 1..Len(requests) :
          (i < j /\ requests[i].url = requests[j].url) =>
              /\ requests[i].method = "HEAD"
              /\ j = i + 1
              /\ \A k \in 1..Len(requests) :
                    requests[k].url = requests[i].url => k \in {i, j}

\* the url a link event is about
EventUrl(event) ==
    IF "linkResult" \in DOMAIN event.payload
        THEN event.payload.linkResult.url
        ELSE event.payload.url

IsPageStart(event, url) == event.type = "pagestart" /\ event.payload = url

(* C17: in a run no two pagestart events name the same url; a pagestart is
   emitted for a url exactly when the links of its page are taken; it
   comes right after the link event of that url; and when a call made for
   a link of a page emits its events, the first of them is the link event
   of that link and the pagestart of the page is among the events
   before. *)
C17_PageStartOrder ==
    /\ [](\A i, j \in 1..Len(events) :
            (events[i].type = "pagestart"
                /\ IsPageStart(events[j], events[i].payload)) => i = j)
    /\ [](\A k \in 1..Len(events) : events[k].type = "pagestart" =>
            /\ k > 1
            /\ events[k - 1].type = "link"
            /\ EventUrl(events[k - 1]) = events[k].payload
            /\ \E p \in 1..Len(pages) : pages[p].url = events[k].payload)
    /\ [](\A p \in 1..Len(pages) :
            \E k \in 1..Len(events) : IsPageStart(events[k], pages[p].url))
    /\ [][(Len(events') > Len(events) /\ Len(stack) > 1) =>
            /\ events'[Len(events) + 1].type = "link"
            /\ EventUrl(events'[Len(events) + 1]) = Top.url
            /\ Top.url \in Range(stack[Len(stack) - 1].urls)
            /\ \E k \in 1..Len(events) :
                  IsPageStart(events[k], stack[Len(stack) - 1].url)]_vars

\* the target and the page below it were expanded, each pagestart right
\* after its link event, and a link of the page below has its link event
C17_Witness ==
    /\ Len(events) = 5
    /\ events[1].type = "link"
    /\ IsPageStart(events[2], RootUrl)
    /\ events[3].type = "link"
    /\ IsPageStart(events[4], ChildUrl)
    /\ events[5].type = "link"
    /\ EventUrl(events[5]) = OutsideUrl

(* C18: at no time of a run is more than one request in flight; the
   request in flight is the last one handed to the transport and is the
   one of the call that runs; and a request is handed to the transport
   only when none is in flight, or as the retry that takes the place of
   the request just answered, for the same url. *)
C18_OneRequestAtATime ==
    /\ [](Cardinality(inflight) <= 1)
    /\ [](inflight # {} =>
            /\ phase = "crawling"
            /\ stack # <<>>
            /\ Top.pc \in {"fetch", "refetch"}
            /\ inflight = {LastOf(requests)}
            /\ LastOf(requests).url = Top.url)
    /\ [][Len(requests') > Len(requests) =>
            /\ Len(requests') = Len(requests) + 1
            /\ inflight' = {LastOf(requests')}
            /\ \/ inflight = {}
               \/ /\ inflight = {LastOf(requests)}
                  /\ LastOf(requests').url = LastOf(requests).url
                  /\ Top.pc = "fetch"]_vars

\* the HEAD for the first link of a page was answered 405, its retry was
\* answered, and only then the request for the next link went out
C18_Witness ==
    /\ Len(requests) = 4
    /\ requests[2].method = "HEAD"
    /\ requests[3].method = "GET"
    /\ requests[3].url = requests[2].url
    /\ requests[4].url # requests[3].url
    /\ inflight = {requests[4]}
    /\ Len(results) = 2

(* C19: within a run the scanned set and the results only grow: no step
   takes a url out of the set, and every step leaves the results it found
   as they are, in their places. A url is in the set before its result is
   recorded: every url of the results is in the set, and of the urls in
   the set one at most has no result, which, while the crawl runs, is the
   url of the running call. *)
C19_CacheAndResultsGrow ==
    /\ [][first' = first =>
            /\ cache \subseteq cache'
            /\ IsPrefixOf(results, results')]_vars
    /\ [][(Len(results') > Len(results)) =>
            /\ Len(results') = Len(results) + 1
            /\ LastOf(results').url \in cache'
            /\ LastOf(results').url = Top.url]_vars
    /\ [](Range(Urls(results)) \subseteq cache)
    /\ [](Cardinality(cache \ Range(Urls(results))) <= 1)
    /\ [](phase = "crawling" =>
            \A url \in cache \ Range(Urls(results)) :
                /\ stack # <<>>
                /\ url = Top.url
                /\ Top.pc \in {"fetch", "refetch"})

\* three urls have their results, a fourth is in the scanned set and is
\* being fetched
C19_Witness ==
    /\ Len(results) = 3
    /\ Cardinality(cache) = 4
    /\ Cardinality(cache \ Range(Urls(results))) = 1
    /\ inflight # {}

(* C20 as claimed: with recurse, every page that is the target or begins
   with it, is not skipped, and answers its GET with text/html, whatever
   the status, has its links taken from that answer, unless the run ends
   with an exception at that answer; a call crawls by its
   url alone, whichever page named it; and when check() returns, the
   report holds the target and every link of every such page. *)
C20_EveryHtmlPageExpanded ==
    /\ [][\A req \in inflight :
            \A st \in site.statuses : \A ct \in ContentTypes :
                (/\ options.recurse
                 /\ Top.crawl
                 /\ req.responseType = "text"
                 /\ HtmlType(ct)
                 /\ AnsweredWith(req, st, ct)
                 /\ phase' = "crawling") =>
                    /\ Len(pages') = Len(pages) + 1
                    /\ LastOf(pages').url = req.url]_vars
    /\ [](\A k \in 2..Len(stack) :
            stack[k].crawl <=>
                (options.recurse /\ IsPrefixOf(RootUrl, stack[k].url)))
    /\ []((report.returned /\ options.recurse) =>
            /\ RootUrl \in Range(Urls(report.links))
            /\ \A k \in 1..Len(pages) :
                  Range(pages[k].urls) \subseteq Range(Urls(report.links)))

====
